---- MODULE Spec2Model ----
(***************************************************************************)
(* Order / payment settlement core of the e-commerce API.                  *)
(*                                                                         *)
(* The database is PostgreSQL reached through TypeORM with no isolation    *)
(* level configured (src/src/config/database.config.ts:4-16), so every     *)
(* AppDataSource.transaction runs READ COMMITTED: a SELECT sees the rows   *)
(* committed when the statement starts plus the transaction's own writes,  *)
(* an UPDATE locks the rows it changes until commit or rollback, and an    *)
(* UPDATE that meets a row locked by another transaction waits and then    *)
(* re-evaluates its WHERE clause on the committed row.                     *)
(*                                                                         *)
(* products, orders and payments are the committed tables.  req holds the  *)
(* requests in flight, one per worker, each with the uncommitted writes of *)
(* the transaction it has open.  result is what the last step returned to  *)
(* its caller ("none" when the step returned nothing).  calls counts the   *)
(* payment requests started since Init.  Money is in integer cents.        *)
(***************************************************************************)
EXTENDS Integers, Sequences, FiniteSets, TLC

VARIABLES products, orders, payments, req, result, calls

vars == <<products, orders, payments, req, result, calls>>

\* ---------------------------------------------------------------- bounds
\* product p is seeded with stock p + ExtraStock
ExtraStock == 0
MaxQty == 1
MaxItems == 2
MaxOrders == 2
MaxCalls == 2
\* the largest quantity of a request line where only orders are looked at
MaxLineQty == 3

Products == {1, 2}
TxIds == {1, 2}
Workers == {1, 2}
OrderIds == 1..MaxOrders

\* ---------------------------------------------------------------- types
PaymentStatus == {"pending", "completed", "failed", "canceled"}
ProductStatus == {"active", "inactive"}
OrderStatus == {"pending", "paid", "canceled"}
PaymentProvider == {"stripe", "bkash"}
Errors == {"NotFound", "Conflict", "Validation", "AppError", "DbError"}

NoPayment == [orderId |-> 0, provider |-> "none", status |-> "none",
              amount |-> 0, intentAmount |-> 0, rawResponse |-> "none"]

SeedStock(p) == p + ExtraStock
SeedPrice(p) == 5000 * p

NoWrites == [p \in Products |-> 0]

\* a worker with no request; wPayment, wOrder and wStock are the rows its open
\* transaction has updated (wStock: by how much each product's stock is lowered)
Idle == [pc |-> "idle", tx |-> 0, kind |-> "none", orderId |-> 0,
         provider |-> "none", idx |-> 0, wPayment |-> FALSE,
         wOrder |-> FALSE, wStock |-> NoWrites]

\* ---------------------------------------------------------------- orders
\* A request line of CreateOrderDto; product id 0 is an id no product has.
ItemLines == [product_id : Products \cup {0},
              quantity : 1..MaxQty,
              price : {SeedPrice(p) : p \in Products}]
OrderRequests == UNION {[1..n -> ItemLines] : n \in 1..MaxItems}

\* request lines with quantities up to MaxLineQty, each at the price seeded
\* for its product
WideItemLines ==
  {[product_id |-> p, quantity |-> q, price |-> SeedPrice(p)] :
     p \in Products \cup {0}, q \in 1..MaxLineQty}
WideOrderRequests == UNION {[1..n -> WideItemLines] : n \in 1..MaxItems}

RECURSIVE validateProducts(_)
validateProducts(items) ==
  IF items = << >> THEN "ok"
  ELSE LET p == Head(items).product_id IN
       IF p \notin DOMAIN products THEN "NotFound"
       ELSE IF products[p].status # "active" THEN "Validation"
       ELSE validateProducts(Tail(items))

RECURSIVE requestedQty(_, _)
requestedQty(items, p) ==
  IF items = << >> THEN 0
  ELSE (IF Head(items).product_id = p THEN Head(items).quantity ELSE 0)
       + requestedQty(Tail(items), p)

\* mutant of validateStock: each line is checked on its own
validateStockPerLine(items) ==
  IF \E i \in 1..Len(items) :
       products[items[i].product_id].stock < items[i].quantity
  THEN "Validation" ELSE "ok"

validateStock(items) ==
  IF \E i \in 1..Len(items) :
       products[items[i].product_id].stock < requestedQty(items, items[i].product_id)
  THEN "Validation" ELSE "ok"

\* mutant of validatePrices: the client's price is taken as it comes
validatePricesOff(items) == "ok"

validatePrices(items) ==
  IF \E i \in 1..Len(items) : products[items[i].product_id].price # items[i].price
  THEN "Validation" ELSE "ok"

calculateOrderItems(items) ==
  [i \in 1..Len(items) |->
     [product_id |-> items[i].product_id, price |-> items[i].price,
      quantity |-> items[i].quantity,
      subtotal |-> items[i].price * items[i].quantity]]

\* mutant of calculateTotal: only the first subtotal is counted
calculateTotalFirst(items) ==
  IF items = << >> THEN 0 ELSE Head(items).subtotal

RECURSIVE calculateTotal(_)
calculateTotal(items) ==
  IF items = << >> THEN 0 ELSE Head(items).subtotal + calculateTotal(Tail(items))

\* uniq_order_product: one row per (order_id, product_id)
uniqOrderProduct(items) ==
  \A i, j \in 1..Len(items) : items[i].product_id = items[j].product_id => i = j

createOrderResult(items) ==
  IF validateProducts(items) # "ok" THEN validateProducts(items)
  ELSE IF validateStock(items) # "ok" THEN validateStock(items)
  ELSE IF validatePrices(items) # "ok" THEN validatePrices(items)
  ELSE IF ~uniqOrderProduct(items) THEN "DbError"
  ELSE "ok"

\* mutant of createOrderProducts: the ordered quantities are reserved at once
createOrderReserves(items) ==
  [p \in DOMAIN products |->
     [products[p] EXCEPT !.stock = @ - requestedQty(items, p)]]

\* the product rows after OrderRepository.createOrder, which writes the order
\* and its items only
createOrderProducts(items) == products

\* OrderRepository.createOrder: the order row with its items, status 'pending'
createOrder(items) ==
  [status |-> "pending",
   total_amount |-> calculateTotal(calculateOrderItems(items)),
   items |-> calculateOrderItems(items)]

\* OrderService.createOrder
CreateOrder(items) ==
  /\ Len(orders) < MaxOrders
  /\ result' = createOrderResult(items)
  /\ orders' = IF createOrderResult(items) = "ok"
               THEN Append(orders, createOrder(items))
               ELSE orders
  /\ products' = createOrderProducts(items)
  /\ UNCHANGED <<payments, req, calls>>

\* ---------------------------------------------------------------- requests
\* the request ends and r goes back to its caller
Finish(w, r) ==
  /\ req' = [req EXCEPT ![w] = Idle]
  /\ result' = r

\* the request goes on to its next statement
Continue(r) ==
  /\ req' = r
  /\ result' = "none"

\* a new request takes the first worker that has none
FirstIdle(w) ==
  /\ req[w].pc = "idle"
  /\ \A v \in Workers : v < w => req[v].pc # "idle"

Started ==
  /\ calls < MaxCalls
  /\ calls' = calls + 1

\* ---------------------------------------------------------------- createPayment
\* What the provider's createIntent answers: a new payment intent, whose id no
\* earlier intent has (the next one never used), with a status, or a failure.
UsedTx == {t \in TxIds : payments[t] # NoPayment}
FreshTx == {t \in TxIds \ UsedTx : \A u \in TxIds \ UsedTx : t <= u}
IntentResults ==
  [success : {TRUE}, transactionId : FreshTx, status : PaymentStatus]
  \cup {[success |-> FALSE, transactionId |-> 0, status |-> "failed"]}

\* mutant of orderPayable: the status check is lost
orderPayableAlways(order) == TRUE

\* order.status !== 'pending' rejects the payment
orderPayable(order) == order.status = "pending"

\* PaymentService.processPayment, up to the order check
ProcessPayment(w, orderId, provider) ==
  /\ FirstIdle(w)
  /\ Started
  /\ IF provider = "bkash" THEN Finish(w, "Validation")
     ELSE IF orderId \notin DOMAIN orders THEN Finish(w, "NotFound")
     ELSE IF ~orderPayable(orders[orderId]) THEN Finish(w, "Conflict")
     ELSE Continue([req EXCEPT ![w] = [Idle EXCEPT !.pc = "findByOrderId",
                                                   !.orderId = orderId,
                                                   !.provider = provider]])
  /\ UNCHANGED <<products, orders, payments>>

\* PaymentService.processPayment, the check for a completed payment
ProcessPaymentFindByOrderId(w) ==
  /\ req[w].pc = "findByOrderId"
  /\ IF \E t \in TxIds : /\ payments[t].orderId = req[w].orderId
                         /\ payments[t].status = "completed"
     THEN Finish(w, "Conflict")
     ELSE Continue([req EXCEPT ![w].pc = "strategy"])
  /\ UNCHANGED <<products, orders, payments, calls>>

\* StripePaymentStrategy.processPayment, Math.round(parseFloat(amount) * 100):
\* the units and the hundredths of the decimal string, put together in cents
amountInCents(amount) == (amount \div 100) * 100 + (amount % 100)

\* the total of an order's first n items at the catalog's current prices
RECURSIVE currentTotal(_, _)
currentTotal(items, n) ==
  IF n = 0 THEN 0
  ELSE products[items[n].product_id].price * items[n].quantity
       + currentTotal(items, n - 1)

\* mutant of create: the amount is taken from the catalog's current prices
createAtCurrentPrices(orderId, provider, status) ==
  [orderId |-> orderId,
   provider |-> provider,
   status |-> IF status = "completed" THEN "completed" ELSE "pending",
   amount |-> currentTotal(orders[orderId].items, Len(orders[orderId].items)),
   intentAmount |-> currentTotal(orders[orderId].items, Len(orders[orderId].items)),
   rawResponse |-> "intent"]

\* mutant of create: the row is not stored
createNothing(orderId, provider, status) == NoPayment

\* PaymentRepository.create with the data processPayment passes: the row is
\* 'completed' only when the provider said so, and 'pending' otherwise;
\* intentAmount is the amount, in cents, the provider's intent was created with
create(orderId, provider, status) ==
  [orderId |-> orderId,
   provider |-> provider,
   status |-> IF status = "completed" THEN "completed" ELSE "pending",
   amount |-> orders[orderId].total_amount,
   intentAmount |-> amountInCents(orders[orderId].total_amount),
   rawResponse |-> "intent"]

\* mutant of idxTransactionId: the table has no unique index
idxTransactionIdOff(transactionId) == TRUE

\* the unique index idx_transaction_id lets a row in only when no stored row
\* has its transaction_id
idxTransactionId(transactionId) == payments[transactionId] = NoPayment

\* PaymentService.processPayment, the provider call and the Payment row
\* (idx_transaction_id refuses a second row with the same transaction id)
ProcessPaymentStrategy(w, paymentResult) ==
  /\ req[w].pc = "strategy"
  /\ IF ~paymentResult.success
     THEN Finish(w, "Validation") /\ UNCHANGED payments
     ELSE IF ~idxTransactionId(paymentResult.transactionId)
     THEN Finish(w, "DbError") /\ UNCHANGED payments
     ELSE /\ payments' = [payments EXCEPT ![paymentResult.transactionId] =
                 create(req[w].orderId, req[w].provider, paymentResult.status)]
          /\ Finish(w, "created")
  /\ UNCHANGED <<products, orders, calls>>

\* ---------------------------------------------------------------- settlement
\* An inbound webhook request: its stripe-signature header is valid, invalid
\* or missing, and its payload carries a payment intent (tx, status).
WebhookRequests ==
  [req : {TRUE}, signature : {"valid"}, tx : TxIds, status : PaymentStatus]
  \cup [req : {TRUE}, signature : {"invalid", "missing"}, tx : TxIds,
        status : {"completed"}]

\* verifyPaymentParam of a reconcile call: a bare transactionId (tx 0: none
\* given); status is what the provider holds for it.
PullParams ==
  [req : {FALSE}, signature : {"missing"}, tx : TxIds \cup {0},
   status : {"completed", "failed", "canceled"}]

VerifyParams == WebhookRequests \cup PullParams

\* mutant of strategyVerifyPayment: the signature is not looked at
strategyVerifyPaymentUnsigned(param) ==
  IF param.req
  THEN [success |-> TRUE, transactionId |-> param.tx, status |-> param.status]
  ELSE [success |-> FALSE, transactionId |-> 0, status |-> "failed"]

\* StripePaymentStrategy.verifyPayment: reads req.body and req.headers, so a
\* call without req fails like one whose signature does not verify.
strategyVerifyPayment(param) ==
  IF param.req /\ param.signature = "valid"
  THEN [success |-> TRUE, transactionId |-> param.tx, status |-> param.status]
  ELSE [success |-> FALSE, transactionId |-> 0, status |-> "failed"]

\* PaymentService.verifyPayment, the provider strategy and the dispatch: the
\* request as it goes on (Idle: no handler is called)
verifyPaymentDispatch(param) ==
  LET verificationResult == strategyVerifyPayment(param) IN
  IF /\ verificationResult.success
     /\ verificationResult.status \in {"completed", "failed", "canceled"}
  THEN [Idle EXCEPT !.pc = "findPayment",
                    !.tx = verificationResult.transactionId,
                    !.kind = verificationResult.status]
  ELSE Idle

\* PaymentService.verifyPayment: what it has answered once the dispatch is made
verifyPaymentResult(param) ==
  IF ~strategyVerifyPayment(param).success THEN "Validation"
  ELSE IF verifyPaymentDispatch(param) = Idle THEN "ok"
  ELSE "none"

\* PaymentService.verifyPayment called with a bare transactionId
VerifyPayment(w, param) ==
  /\ FirstIdle(w)
  /\ Started
  /\ req' = [req EXCEPT ![w] = verifyPaymentDispatch(param)]
  /\ result' = verifyPaymentResult(param)
  /\ UNCHANGED <<products, orders, payments>>

\* PaymentController.handleStripeWebhook: 400 when the header is missing;
\* otherwise verifyPayment is started without being awaited and 200 is sent
\* at once (the 400 of the catch callback comes after the response is sent).
HandleStripeWebhook(w, request) ==
  /\ FirstIdle(w)
  /\ Started
  /\ IF request.signature = "missing"
     THEN Finish(w, "400")
     ELSE /\ req' = [req EXCEPT ![w] = verifyPaymentDispatch(request)]
          /\ result' = "200"
  /\ UNCHANGED <<products, orders, payments>>

\* the status each handler passes to updatePaymentStatus
writtenStatus(kind) == IF kind = "completed" THEN "completed" ELSE "failed"

\* mutant of writtenOrderStatus: a 'canceled' event leaves the order pending
writtenOrderStatusKeepsPending(kind) == IF kind = "completed" THEN "paid" ELSE "pending"

\* the status updateDbOnPaymentSucceed / Canceled writes to the order
writtenOrderStatus(kind) == IF kind = "completed" THEN "paid" ELSE "canceled"

\* the tables once the writes of w's transaction are in them
paymentsWritten(w) ==
  IF req[w].wPayment
  THEN [payments EXCEPT ![req[w].tx].status = writtenStatus(req[w].kind),
                        ![req[w].tx].rawResponse = req[w].kind]
  ELSE payments

ordersWritten(w) ==
  IF req[w].wOrder
  THEN [orders EXCEPT ![req[w].orderId].status = writtenOrderStatus(req[w].kind)]
  ELSE orders

productsWritten(w) ==
  [p \in Products |-> [products[p] EXCEPT !.stock = @ - req[w].wStock[p]]]

\* mutant of Rollback: the statements ran outside the transaction, so the
\* writes made before the error stay
RollbackKeepsWrites(w, r) ==
  /\ Finish(w, r)
  /\ payments' = paymentsWritten(w)
  /\ orders' = ordersWritten(w)
  /\ products' = productsWritten(w)

\* an error leaves the transaction callback: ROLLBACK
Rollback(w, r) ==
  /\ Finish(w, r)
  /\ UNCHANGED <<products, orders, payments>>

\* mutant of alreadyProcessed: every settlement is taken as done already
alwaysProcessed(kind, payment) == TRUE

\* mutant of alreadyProcessed: the check is lost
neverProcessed(kind, payment) == FALSE

\* "2. Check if already processed", which only updateDbOnPaymentSucceed has
alreadyProcessed(kind, payment) ==
  kind = "completed" /\ payment.status = "completed"

\* updateDbOnPaymentSucceed / Failed / Canceled: findPaymentByTransactionId and
\* the checks that follow it
FindPayment(w) ==
  /\ req[w].pc = "findPayment"
  /\ LET payment == payments[req[w].tx] IN
     IF payment = NoPayment
     THEN Rollback(w, IF req[w].kind = "completed" THEN "NotFound" ELSE "ok")
     ELSE IF alreadyProcessed(req[w].kind, payment)
     THEN Rollback(w, "already")
     ELSE /\ Continue([req EXCEPT ![w].pc = "updatePaymentStatus",
                                  ![w].orderId = payment.orderId])
          /\ UNCHANGED <<products, orders, payments>>
  /\ UNCHANGED calls

\* the row lock an UPDATE of the payment row waits for
PaymentLocked(w) ==
  \E v \in Workers \ {w} : req[v].wPayment /\ req[v].tx = req[w].tx

\* mutant of afterUpdatePaymentStatus: after a 'failed' update the handler
\* asks the provider for a new intent inside the transaction
afterUpdatePaymentStatusAsksProvider(kind) ==
  IF kind = "failed" THEN "strategy" ELSE "updateOrder"

\* mutant of afterUpdatePaymentStatus: every handler updates the order
afterUpdatePaymentStatusOrder(kind) == "updateOrder"

\* what follows the payment update: the order update in
\* updateDbOnPaymentSucceed / Canceled, nothing in updateDbOnPaymentFailed
\* ("3. Keep order in pending status")
afterUpdatePaymentStatus(kind) == IF kind = "failed" THEN "commit" ELSE "updateOrder"

\* updatePaymentStatus(transactionId, status, rawResponse, repo)
UpdatePaymentStatus(w) ==
  /\ req[w].pc = "updatePaymentStatus"
  /\ ~PaymentLocked(w)
  /\ Continue([req EXCEPT ![w].wPayment = TRUE,
                          ![w].pc = afterUpdatePaymentStatus(req[w].kind)])
  /\ UNCHANGED <<products, orders, payments, calls>>

\* the row lock an UPDATE of the order row waits for
OrderLocked(w) ==
  \E v \in Workers \ {w} : req[v].wOrder /\ req[v].orderId = req[w].orderId

\* mutant of afterUpdateOrder: every handler runs the stock loop
afterUpdateOrderAlwaysLoop(kind) == "getProductStock"

\* what follows the order update: the item loop in updateDbOnPaymentSucceed,
\* the end of the callback in updateDbOnPaymentCanceled
afterUpdateOrder(kind) == IF kind = "completed" THEN "getProductStock" ELSE "commit"

\* transactionalOrderRepo.update({id: payment.orderId}, {status})
UpdateOrder(w) ==
  /\ req[w].pc = "updateOrder"
  /\ ~OrderLocked(w)
  /\ Continue([req EXCEPT ![w].wOrder = TRUE,
                          ![w].idx = IF afterUpdateOrder(req[w].kind) = "commit"
                                     THEN 0 ELSE 1,
                          ![w].pc = afterUpdateOrder(req[w].kind)])
  /\ UNCHANGED <<products, orders, payments, calls>>

CurrentItem(w) == orders[req[w].orderId].items[req[w].idx]

\* getProductStock inside the transaction: the committed row with the
\* transaction's own writes (-1 stands for null, no such product)
getProductStock(w, productId) ==
  IF productId \in DOMAIN products
  THEN products[productId].stock - req[w].wStock[productId]
  ELSE -1

\* the loop body of updateDbOnPaymentSucceed, up to its two throws
GetProductStock(w) ==
  /\ req[w].pc = "getProductStock"
  /\ LET item == CurrentItem(w)
         currentStock == getProductStock(w, item.product_id) IN
     IF item.product_id \notin DOMAIN products THEN Rollback(w, "NotFound")
     ELSE IF currentStock < item.quantity THEN Rollback(w, "AppError")
     ELSE /\ Continue([req EXCEPT ![w].pc = "reduceProductStock"])
          /\ UNCHANGED <<products, orders, payments>>
  /\ UNCHANGED calls

\* mutant of stockGuard: the UPDATE has no stock condition
stockGuardOff(stock, quantity) == TRUE

\* andWhere('stock >= :quantity'), on the row the statement sees
stockGuard(stock, quantity) == stock >= quantity

\* the row lock an UPDATE of the product row waits for
ProductLocked(w) ==
  LET item == CurrentItem(w) IN
  /\ stockGuard(products[item.product_id].stock, item.quantity)
  /\ \E v \in Workers \ {w} : req[v].wStock[item.product_id] > 0

\* reduceProductStock: SET stock = stock - quantity WHERE id AND stock >= quantity
reduceProductStock(w, productId, quantity) ==
  IF stockGuard(getProductStock(w, productId), quantity)
  THEN [req[w].wStock EXCEPT ![productId] = @ + quantity]
  ELSE req[w].wStock

ReduceProductStock(w) ==
  /\ req[w].pc = "reduceProductStock"
  /\ ~ProductLocked(w)
  /\ LET item == CurrentItem(w)
         more == req[w].idx < Len(orders[req[w].orderId].items) IN
     Continue([req EXCEPT
                 ![w].wStock = reduceProductStock(w, item.product_id, item.quantity),
                 ![w].idx = IF more THEN req[w].idx + 1 ELSE req[w].idx,
                 ![w].pc = IF more THEN "getProductStock" ELSE "commit"])
  /\ UNCHANGED <<products, orders, payments, calls>>

\* the transaction callback returned: COMMIT
Commit(w) ==
  /\ req[w].pc = "commit"
  /\ payments' = paymentsWritten(w)
  /\ orders' = ordersWritten(w)
  /\ products' = productsWritten(w)
  /\ Finish(w, "ok")
  /\ UNCHANGED calls

\* w's statement waits for a row lock v holds
WaitsFor(w, v) ==
  /\ w # v
  /\ \/ req[w].pc = "updatePaymentStatus" /\ req[v].wPayment /\ req[v].tx = req[w].tx
     \/ req[w].pc = "updateOrder" /\ req[v].wOrder /\ req[v].orderId = req[w].orderId
     \/ /\ req[w].pc = "reduceProductStock"
        /\ stockGuard(products[CurrentItem(w).product_id].stock, CurrentItem(w).quantity)
        /\ req[v].wStock[CurrentItem(w).product_id] > 0

\* PostgreSQL ends a lock cycle by failing one of the waiting statements; the
\* error leaves the transaction callback and the transaction rolls back.
DeadlockAbort(w) ==
  /\ \E v \in Workers : WaitsFor(w, v) /\ WaitsFor(v, w)
  /\ Rollback(w, "DbError")
  /\ UNCHANGED calls

\* ---------------------------------------------------------------- Init
\* The server starts on the database earlier runs left: the seeded products,
\* the orders createOrder accepted, and for some of them the payment intents
\* processPayment recorded (transaction ids are handed out lowest first).
\* Nothing has been settled yet, so no stock has been taken.
Init ==
  /\ products = [p \in Products |->
                   [stock |-> SeedStock(p), price |-> SeedPrice(p),
                    status |-> "active"]]
  /\ \E n \in 0..MaxOrders :
       \E placed \in [1..n -> {items \in OrderRequests : createOrderResult(items) = "ok"}] :
         orders = [o \in 1..n |-> createOrder(placed[o])]
  /\ \E intents \in [TxIds -> 0..Len(orders)] :
       /\ \A t, u \in TxIds : t < u /\ intents[u] # 0 => intents[t] # 0
       /\ payments = [t \in TxIds |->
                        IF intents[t] = 0 THEN NoPayment
                        ELSE create(intents[t], "stripe", "pending")]
  /\ req = [w \in Workers |-> Idle]
  /\ result = "none"
  /\ calls = 0

\* ---------------------------------------------------------------- Next
Next ==
  \/ \E items \in OrderRequests : CreateOrder(items)
  \/ \E w \in Workers, o \in OrderIds, provider \in PaymentProvider :
       ProcessPayment(w, o, provider)
  \/ \E w \in Workers : ProcessPaymentFindByOrderId(w)
  \/ \E w \in Workers, r \in IntentResults : ProcessPaymentStrategy(w, r)
  \/ \E w \in Workers, param \in PullParams : VerifyPayment(w, param)
  \/ \E w \in Workers, request \in WebhookRequests : HandleStripeWebhook(w, request)
  \/ \E w \in Workers : FindPayment(w)
  \/ \E w \in Workers : UpdatePaymentStatus(w)
  \/ \E w \in Workers : UpdateOrder(w)
  \/ \E w \in Workers : GetProductStock(w)
  \/ \E w \in Workers : ReduceProductStock(w)
  \/ \E w \in Workers : Commit(w)
  \/ \E w \in Workers : DeadlockAbort(w)

Spec == Init /\ [][Next]_vars

\* One request at a time: every request runs from start to end before the next.
NextSeq ==
  \/ \E items \in OrderRequests : CreateOrder(items)
  \/ \E o \in OrderIds, provider \in PaymentProvider : ProcessPayment(1, o, provider)
  \/ ProcessPaymentFindByOrderId(1)
  \/ \E r \in IntentResults : ProcessPaymentStrategy(1, r)
  \/ \E param \in PullParams : VerifyPayment(1, param)
  \/ \E request \in WebhookRequests : HandleStripeWebhook(1, request)
  \/ FindPayment(1)
  \/ UpdatePaymentStatus(1)
  \/ UpdateOrder(1)
  \/ GetProductStock(1)
  \/ ReduceProductStock(1)
  \/ Commit(1)

SpecSeq == Init /\ [][NextSeq]_vars

\* Orders of larger quantities: an empty order table, the first product
\* stocked for the largest line and the others for a single unit, one request
\* at a time.
InitOrders ==
  /\ products = [p \in Products |->
                   [stock |-> IF p = 1 THEN MaxLineQty ELSE 1,
                    price |-> SeedPrice(p),
                    status |-> "active"]]
  /\ orders = << >>
  /\ payments = [t \in TxIds |-> NoPayment]
  /\ req = [w \in Workers |-> Idle]
  /\ result = "none"
  /\ calls = 0

NextOrders ==
  \/ \E items \in WideOrderRequests : CreateOrder(items)
  \/ \E o \in OrderIds, provider \in PaymentProvider : ProcessPayment(1, o, provider)
  \/ ProcessPaymentFindByOrderId(1)
  \/ \E r \in IntentResults : ProcessPaymentStrategy(1, r)
  \/ \E param \in PullParams : VerifyPayment(1, param)
  \/ \E request \in WebhookRequests : HandleStripeWebhook(1, request)
  \/ FindPayment(1)
  \/ UpdatePaymentStatus(1)
  \/ UpdateOrder(1)
  \/ GetProductStock(1)
  \/ ReduceProductStock(1)
  \/ Commit(1)

SpecOrders == InitOrders /\ [][NextOrders]_vars

\* ------------------------------------------------------------ shared stock
\* Every product has stock for all the orders together; MaxOrders orders are
\* stored, each with one pending payment intent; settlements run concurrently.
SharedStock(p) == MaxOrders * MaxQty * MaxItems

InitShared ==
  /\ products = [p \in Products |->
                   [stock |-> SharedStock(p), price |-> SeedPrice(p),
                    status |-> "active"]]
  /\ \E placed \in [OrderIds -> {items \in OrderRequests : createOrderResult(items) = "ok"}] :
       orders = [o \in OrderIds |-> createOrder(placed[o])]
  /\ payments = [t \in TxIds |->
                   IF t \in DOMAIN orders THEN create(t, "stripe", "pending")
                   ELSE NoPayment]
  /\ req = [w \in Workers |-> Idle]
  /\ result = "none"
  /\ calls = 0

NextShared ==
  \/ \E w \in Workers, request \in WebhookRequests : HandleStripeWebhook(w, request)
  \/ \E w \in Workers : FindPayment(w)
  \/ \E w \in Workers : UpdatePaymentStatus(w)
  \/ \E w \in Workers : UpdateOrder(w)
  \/ \E w \in Workers : GetProductStock(w)
  \/ \E w \in Workers : ReduceProductStock(w)
  \/ \E w \in Workers : Commit(w)
  \/ \E w \in Workers : DeadlockAbort(w)

SpecShared == InitShared /\ [][NextShared]_vars

\* ------------------------------------------------------- settlement progress
\* the next statement of w's settlement
SettlementStep(w) ==
  \/ FindPayment(w)
  \/ UpdatePaymentStatus(w)
  \/ UpdateOrder(w)
  \/ GetProductStock(w)
  \/ ReduceProductStock(w)
  \/ Commit(w)

\* Settlements on the database earlier runs left.  A settlement whose next
\* statement can run does run it (the database answers every statement that
\* waits for no lock, and the event loop resumes the awaiting callback), and
\* PostgreSQL's deadlock detector ends every lock cycle.
SpecLive ==
  /\ Init
  /\ [][NextShared]_vars
  /\ \A w \in Workers : WF_vars(SettlementStep(w))
  /\ \A w \in Workers : WF_vars(DeadlockAbort(w))

\* ------------------------------------------------------- repeated intent ids
\* A provider that may answer createIntent with an id it has given out before
RepeatedIntentResults ==
  [success : {TRUE}, transactionId : TxIds, status : PaymentStatus]
  \cup {[success |-> FALSE, transactionId |-> 0, status |-> "failed"]}

NextIntents ==
  \/ \E w \in Workers, o \in OrderIds, provider \in PaymentProvider :
       ProcessPayment(w, o, provider)
  \/ \E w \in Workers : ProcessPaymentFindByOrderId(w)
  \/ \E w \in Workers, r \in RepeatedIntentResults : ProcessPaymentStrategy(w, r)

SpecIntents == Init /\ [][NextIntents]_vars

\* ---------------------------------------------------------------- catalog
\* UpdateProductDto: the price and the status to store (a value equal to the
\* stored one stands for a field left out); stock edits are left out.
ProductUpdates == [price : {SeedPrice(p) : p \in Products}, status : ProductStatus]

\* ProductService.updateProduct; the UPDATE waits for a settlement that holds
\* the product's row
UpdateProduct(p, data) ==
  /\ \A w \in Workers : p \in DOMAIN products => req[w].wStock[p] = 0
  /\ IF p \notin DOMAIN products
     THEN result' = "NotFound" /\ UNCHANGED products
     ELSE /\ products' = [products EXCEPT ![p].price = data.price,
                                          ![p].status = data.status]
          /\ result' = "ok"
  /\ UNCHANGED <<orders, payments, req, calls>>

\* Order and payment creation next to catalog edits, one request at a time.
NextCatalog ==
  \/ \E items \in OrderRequests : CreateOrder(items)
  \/ \E p \in Products \cup {0}, data \in ProductUpdates : UpdateProduct(p, data)

SpecCatalog == InitOrders /\ [][NextCatalog]_vars

\* the catalog, the order requests and the creation of payments
NextSnapshot ==
  \/ NextCatalog
  \/ \E o \in OrderIds, provider \in PaymentProvider : ProcessPayment(1, o, provider)
  \/ ProcessPaymentFindByOrderId(1)
  \/ \E r \in IntentResults : ProcessPaymentStrategy(1, r)

SpecSnapshot == InitOrders /\ [][NextSnapshot]_vars

\* ---------------------------------------------------------------- properties
itemQty(o, p) == requestedQty(orders[o].items, p)

RECURSIVE paidQtyUpTo(_, _)
paidQtyUpTo(n, p) ==
  IF n = 0 THEN 0
  ELSE (IF orders[n].status = "paid" THEN itemQty(n, p) ELSE 0) + paidQtyUpTo(n - 1, p)

\* what the paid orders hold of product p
PaidQty(p) == paidQtyUpTo(Len(orders), p)

RECURSIVE completedQtyOf(_, _)
completedQtyOf(txs, p) ==
  IF txs = {} THEN 0
  ELSE LET t == CHOOSE t \in txs : TRUE IN
       (IF payments[t].status = "completed" THEN itemQty(payments[t].orderId, p) ELSE 0)
       + completedQtyOf(txs \ {t}, p)

\* what the orders of the completed payments hold of product p
CompletedQty(p) == completedQtyOf(TxIds, p)

InTransaction == {"findPayment", "updatePaymentStatus", "updateOrder",
                  "getProductStock", "reduceProductStock", "commit"}

\* w takes a step
Steps(w) == req'[w] # req[w]

\* w's transaction commits
Commits(w) == req[w].pc = "commit" /\ req'[w].pc = "idle"

TablesUnchanged == UNCHANGED <<products, orders, payments>>

\* C1: of the 'completed' settlements of one transactionId that run
\* concurrently only one is applied: a 'completed' settlement commits its
\* writes (payment completed, order paid, each item's stock lowered by its
\* quantity) only while the payment row is not completed yet, so the stock is
\* never lowered twice for the same transactionId.
C1_SettledExactlyOnce ==
  [][\A w \in Workers :
       (Commits(w) /\ req[w].kind = "completed")
         => payments[req[w].tx].status # "completed"]_vars

\* C2: with one request at a time, the first 'completed' settlement of a
\* payment makes the payment completed and the order paid and lowers the stock
\* of every product by what the order holds of it, and a 'completed'
\* settlement of a payment that is completed already returns without an error
\* and leaves payments, orders and stock as they are.
C2_SequentialIdempotence ==
  [][/\ (Commits(1) /\ req[1].kind = "completed")
          => /\ payments'[req[1].tx].status = "completed"
             /\ orders'[req[1].orderId].status = "paid"
             /\ \A p \in Products :
                  products'[p].stock = products[p].stock - itemQty(req[1].orderId, p)
     /\ (/\ req[1].pc = "findPayment"
         /\ req[1].kind = "completed"
         /\ payments[req[1].tx].status = "completed"
         /\ Steps(1))
          => /\ req'[1].pc = "idle"
             /\ result' = "already"
             /\ TablesUnchanged]_vars

\* C2 witness: a second 'completed' event has just been answered for a payment
\* the first one settled.
C2_Witness ==
  /\ result = "already"
  /\ \E t \in TxIds :
       /\ payments[t].status = "completed"
       /\ payments[t].rawResponse = "completed"
       /\ orders[payments[t].orderId].status = "paid"
       /\ \A p \in Products :
            products[p].stock = SeedStock(p) - itemQty(payments[t].orderId, p)

\* C3: for every product, what left the stock is what the paid orders hold of
\* it, or (the claim counts it either way) what the orders of the completed
\* payments hold of it.
C3_StockConservation ==
  \A p \in Products :
    \/ SeedStock(p) - products[p].stock = PaidQty(p)
    \/ SeedStock(p) - products[p].stock = CompletedQty(p)

\* C4: no order has two completed payments.
C4_OneCompletedPayment ==
  \A o \in DOMAIN orders :
    Cardinality({t \in TxIds : payments[t].orderId = o
                               /\ payments[t].status = "completed"}) <= 1

\* C5: an order's status changes only from pending, to paid or to canceled.
C5_OrderStateMachine ==
  [][\A o \in DOMAIN orders :
       orders'[o].status # orders[o].status
         => orders[o].status = "pending" /\ orders'[o].status \in {"paid", "canceled"}]_vars

C7_CompletedPaymentFrozen ==
  [][\A t \in TxIds :
       payments[t].status = "completed" => payments'[t] = payments[t]]_vars

\* C8: a 'completed' settlement that meets an item whose product has less
\* stock than the item's quantity ends in an error, and a settlement that ends
\* in an error leaves payments, orders and every product's stock as they were.
C8_AtomicRollback ==
  [][\A w \in Workers :
       /\ (/\ req[w].pc = "getProductStock"
           /\ Steps(w)
           /\ getProductStock(w, CurrentItem(w).product_id) < CurrentItem(w).quantity)
            => result' \in Errors
       /\ (/\ req[w].pc \in InTransaction
           /\ req'[w].pc = "idle"
           /\ result' \in Errors)
            => TablesUnchanged]_vars

Insufficient(o, i) ==
  products[orders[o].items[i].product_id].stock < orders[o].items[i].quantity

\* C8 witness: the only order has two items and is paid, and a settlement has
\* just failed for lack of stock: the second item's product is short, the first
\* item's is not, so the failed settlement had lowered the first item's stock
\* in its transaction, and that stock shows the one decrement of the settlement
\* that paid the order.
C8_Witness ==
  /\ result = "AppError"
  /\ \A w \in Workers : req[w].pc = "idle"
  /\ Len(orders) = 1
  /\ Len(orders[1].items) = 2
  /\ orders[1].status = "paid"
  /\ ~Insufficient(1, 1)
  /\ Insufficient(1, 2)
  /\ \A p \in Products : products[p].stock = SeedStock(p) - itemQty(1, p)

\* C9: when the provider answers createIntent with a terminal status,
\* createPayment settles before it returns: on 'completed' the order is paid
\* and the stock of every product is lowered by what the order holds of it, on
\* 'failed' or 'canceled' the Payment row is not left pending.
C9_SynchronousSettlement ==
  [][\A w \in Workers, r \in IntentResults :
       (/\ req[w].pc = "strategy"
        /\ r.success
        /\ payments[r.transactionId] = NoPayment
        /\ ProcessPaymentStrategy(w, r))
         => /\ r.status = "completed"
                => /\ orders'[req[w].orderId].status = "paid"
                   /\ \A p \in Products :
                        products'[p].stock
                          = products[p].stock - itemQty(req[w].orderId, p)
            /\ r.status \in {"failed", "canceled"}
                => payments'[r.transactionId].status # "pending"]_vars

\* C10: no product's stock is negative, in the committed table and as any open
\* transaction sees it.
C10_StockNonNegative ==
  \A p \in Products :
    /\ products[p].stock >= 0
    /\ \A w \in Workers : products[p].stock - req[w].wStock[p] >= 0

\* C10 witness: two paid orders hold more of a product than it ever had, and
\* its stock stands at zero: the stock condition of the UPDATE stopped the
\* second decrement.
C10_Witness ==
  \E p \in Products :
    /\ products[p].stock = 0
    /\ PaidQty(p) > SeedStock(p)
    /\ \A w \in Workers : req[w].pc = "idle"

\* C11: the stock of a product changes only when a 'completed' settlement
\* commits: createOrder, createPayment and the 'failed' and 'canceled'
\* settlements leave every product's stock as it is, in the table and in
\* their own transaction.
C11_StockOnlyOnCompleted ==
  [][/\ products' # products
          => \E w \in Workers : Commits(w) /\ req[w].kind = "completed"
     /\ \A w \in Workers :
          req'[w].kind # "completed" => req'[w].wStock = NoWrites]_vars

\* C11 witness: a 'canceled' settlement has committed (the payment carries its
\* event, the order is canceled) after a payment was created, and every
\* product still has its seeded stock.
C11_Witness ==
  /\ \A w \in Workers : req[w].pc = "idle"
  /\ \E t \in TxIds : /\ payments[t].rawResponse = "canceled"
                       /\ orders[payments[t].orderId].status = "canceled"
  /\ \A p \in Products : products[p].stock = SeedStock(p)

\* C12: a webhook whose signature header is missing or does not verify calls
\* no settlement handler: the request ends at once and payments, orders and
\* stock are as they were.
C12_FailClosed ==
  [][\A w \in Workers, request \in WebhookRequests :
       (/\ calls' # calls
        /\ request.signature # "valid"
        /\ HandleStripeWebhook(w, request))
         => /\ req'[w].pc = "idle"
            /\ TablesUnchanged]_vars

\* C12 witness: a webhook without the signature header has just been refused
\* while a pending payment of a pending order was there to settle, and
\* nothing is settled.
C12_Witness ==
  /\ result = "400"
  /\ \A w \in Workers : req[w].pc = "idle"
  /\ \E t \in TxIds : /\ payments[t].status = "pending"
                       /\ orders[payments[t].orderId].status = "pending"
  /\ \A p \in Products : products[p].stock = SeedStock(p)

\* C13: reconciling a pending payment by its transactionId alone goes on as
\* the authenticated webhook for that transactionId and status does: into the
\* same settlement handler, for the same payment.
C13_PullPathEquivalence ==
  [][\A w \in Workers, param \in PullParams :
       (/\ calls' # calls
        /\ param.tx \in TxIds
        /\ payments[param.tx].status = "pending"
        /\ VerifyPayment(w, param))
         => \E request \in WebhookRequests :
              /\ request.signature = "valid"
              /\ request.tx = param.tx
              /\ request.status = param.status
              /\ req'[w] = verifyPaymentDispatch(request)]_vars

\* C14: a createPayment call adds exactly one Payment row when the provider's
\* createIntent succeeds and none when it fails; on failure the caller gets a
\* Validation error and the orders are as they were, so the order is as
\* payable as before; no other step of createPayment touches the rows.
C14_OneRowPerIntent ==
  [][\A w \in Workers :
       /\ \A r \in IntentResults :
            (req[w].pc = "strategy" /\ ProcessPaymentStrategy(w, r))
              => IF r.success
                 THEN /\ Cardinality(UsedTx') = Cardinality(UsedTx) + 1
                      /\ payments'[r.transactionId].orderId = req[w].orderId
                      /\ \A t \in UsedTx : payments'[t] = payments[t]
                      /\ result' = "created"
                 ELSE /\ payments' = payments
                      /\ orders' = orders
                      /\ result' = "Validation"
       /\ (req[w].pc \in {"idle", "findByOrderId"} /\ Steps(w))
            => payments' = payments]_vars

\* C14 witness: two payment requests were made, at most one of them created a
\* row: the only order is pending and has exactly one payment, pending, just
\* created.
C14_Witness ==
  /\ calls = 2
  /\ result = "created"
  /\ \A w \in Workers : req[w].pc = "idle"
  /\ Len(orders) = 1
  /\ orders[1].status = "pending"
  /\ Cardinality(UsedTx) = 1
  /\ \A t \in UsedTx : payments[t].status = "pending" /\ payments[t].rawResponse = "intent"

\* C15: a 'failed' settlement that commits sets its payment to failed and
\* leaves every order and every stock as it is; a pending order is accepted by
\* createPayment whatever failed payments it has, and the row createPayment
\* then stores has a transactionId no row had, the rows there before staying
\* as they are.
C15_FailedKeepsOrderPayable ==
  [][\A w \in Workers :
       /\ (Commits(w) /\ req[w].kind = "failed")
            => /\ payments'[req[w].tx].status = "failed"
               /\ orders' = orders
               /\ products' = products
       /\ \A o \in DOMAIN orders :
            (/\ calls' # calls
             /\ orders[o].status = "pending"
             /\ ProcessPayment(w, o, "stripe"))
              => req'[w].pc = "findByOrderId"
       /\ (/\ req[w].pc = "findByOrderId"
           /\ Steps(w)
           /\ \A t \in TxIds : payments[t].orderId = req[w].orderId
                                 => payments[t].status \in {"failed", "pending"})
            => req'[w].pc = "strategy"
       /\ \A r \in IntentResults :
            (req[w].pc = "strategy" /\ r.success /\ ProcessPaymentStrategy(w, r))
              => /\ payments[r.transactionId] = NoPayment
                 /\ payments'[r.transactionId].status \in {"pending", "completed"}
                 /\ \A t \in UsedTx : payments'[t] = payments[t]]_vars

\* C15 witness: the only order is pending with a failed payment, settled by a
\* 'failed' event, and a second payment createPayment has just created.
C15_Witness ==
  /\ result = "created"
  /\ \A w \in Workers : req[w].pc = "idle"
  /\ Len(orders) = 1
  /\ orders[1].status = "pending"
  /\ \E t, u \in TxIds :
       /\ t # u
       /\ payments[t].orderId = 1
       /\ payments[t].status = "failed"
       /\ payments[t].rawResponse = "failed"
       /\ payments[u].orderId = 1
       /\ payments[u].status = "pending"
       /\ payments[u].rawResponse = "intent"

C17_UnknownTransactionNotFound ==
  [][\A w \in Workers :
       (/\ req[w].pc = "findPayment"
        /\ payments[req[w].tx] = NoPayment
        /\ Steps(w))
         => /\ result' = "NotFound"
            /\ req'[w].pc = "idle"
            /\ TablesUnchanged]_vars

\* C18: handleStripeWebhook answers 200 exactly to the requests whose
\* signature verifies; a request whose signature is missing or does not verify
\* is never answered 200.
C18_AckOnlyAuthenticated ==
  [][\A w \in Workers, request \in WebhookRequests :
       (calls' # calls /\ HandleStripeWebhook(w, request))
         => (result' = "200" <=> request.signature = "valid")]_vars

RECURSIVE subtotalSum(_, _)
subtotalSum(items, n) ==
  IF n = 0 THEN 0 ELSE items[n].subtotal + subtotalSum(items, n - 1)

\* C19: in every order, each item's subtotal is its price times its quantity
\* and the order's total is the sum of its items' subtotals, at creation (when
\* the order is pending) and after every later step.
C19_TotalIsSumOfSubtotals ==
  [][\A o \in DOMAIN orders' :
       /\ \A i \in DOMAIN orders'[o].items :
            orders'[o].items[i].subtotal
              = orders'[o].items[i].price * orders'[o].items[i].quantity
       /\ orders'[o].total_amount
            = subtotalSum(orders'[o].items, Len(orders'[o].items))
       /\ o \notin DOMAIN orders => orders'[o].status = "pending"]_vars

\* C19 witness: an order of 3 of one product and 1 of another, whose total is
\* three times the first price plus the second, has been paid.
C19_Witness ==
  \E o \in DOMAIN orders :
    /\ Len(orders[o].items) = 2
    /\ orders[o].items[1].quantity = 3
    /\ orders[o].items[2].quantity = 1
    /\ orders[o].total_amount
         = 3 * orders[o].items[1].price + orders[o].items[2].price
    /\ orders[o].items[1].price # orders[o].items[2].price
    /\ orders[o].status = "paid"

RECURSIVE lineQtySum(_, _, _)
lineQtySum(items, n, p) ==
  IF n = 0 THEN 0
  ELSE (IF items[n].product_id = p THEN items[n].quantity ELSE 0)
       + lineQtySum(items, n - 1, p)

LineMissing(items) ==
  \E i \in 1..Len(items) : items[i].product_id \notin DOMAIN products
LineInactive(items) ==
  \E i \in 1..Len(items) : /\ items[i].product_id \in DOMAIN products
                            /\ products[items[i].product_id].status # "active"
LinePriceMismatch(items) ==
  \E i \in 1..Len(items) : /\ items[i].product_id \in DOMAIN products
                            /\ products[items[i].product_id].price # items[i].price

\* C21: an order is stored only if every line's product exists, is active and
\* has the line's price as its current price; a createOrder with a missing
\* product, an inactive product or a price mismatch stores nothing and ends
\* in NotFound or a Validation error: NotFound only with a missing product,
\* always NotFound when the missing product is the only kind of defect among
\* the products, always Validation when no product is missing.
C21_OrderNeedsValidLines ==
  [][/\ Len(orders') > Len(orders)
          => LET items == orders'[Len(orders')].items IN
             ~LineMissing(items) /\ ~LineInactive(items) /\ ~LinePriceMismatch(items)
     /\ (req' = req /\ payments' = payments /\ products' = products)
          => \A items \in OrderRequests :
               (/\ LineMissing(items) \/ LineInactive(items) \/ LinePriceMismatch(items)
                /\ CreateOrder(items))
                 => /\ orders' = orders
                    /\ result' \in {"NotFound", "Validation"}
                    /\ result' = "NotFound" => LineMissing(items)
                    /\ ~LineInactive(items) /\ LineMissing(items) => result' = "NotFound"
                    /\ ~LineMissing(items) => result' = "Validation"]_vars

\* C21 witness: with an empty order table and no payment request made, a
\* product's price has been changed and a createOrder has just failed with a
\* Validation error.
C21_Witness ==
  /\ result = "Validation"
  /\ calls = 0
  /\ orders = << >>
  /\ \E p \in Products : products[p].price # SeedPrice(p)
  /\ \A p \in Products : products[p].status = "active"

\* C22: a createOrder step, accepted or refused, leaves every product row
\* (stock and price) as it was; equivalently a step that changes a product row
\* adds no order and is no createOrder step.
C22_CreateOrderKeepsProducts ==
  [][products' # products
       => /\ Len(orders') = Len(orders)
          /\ ~\E items \in WideOrderRequests : CreateOrder(items)]_vars

\* C22 witness: an order has just been accepted and stored, no payment request
\* was made, and every product still has its initial stock and price.
C22_Witness ==
  /\ result = "ok"
  /\ calls = 0
  /\ Len(orders) >= 1
  /\ \A p \in Products : /\ products[p].stock = (IF p = 1 THEN MaxLineQty ELSE 1)
                          /\ products[p].price = SeedPrice(p)

\* C23: no step, a change of a product's price included, changes the items
\* (unit prices, quantities, subtotals) or the total of an order already
\* stored; and every Payment row that appears has the total of its order as
\* its amount, which is also the amount the provider's intent was created with.
C23_PriceSnapshot ==
  [][/\ \A o \in 1..Len(orders) :
          /\ o <= Len(orders')
          /\ orders'[o].items = orders[o].items
          /\ orders'[o].total_amount = orders[o].total_amount
     /\ \A t \in TxIds :
          (payments[t] = NoPayment /\ payments'[t] # NoPayment)
            => /\ payments'[t].orderId \in 1..Len(orders)
               /\ payments'[t].amount = orders[payments'[t].orderId].total_amount
               /\ payments'[t].intentAmount = orders[payments'[t].orderId].total_amount]_vars

\* C23 witness: a Payment row carries the total of its order although the
\* order's items cost something else at the catalog's prices of now.
C23_Witness ==
  \E t \in TxIds :
    /\ payments[t] # NoPayment
    /\ payments[t].amount = orders[payments[t].orderId].total_amount
    /\ payments[t].intentAmount = payments[t].amount
    /\ LET items == orders[payments[t].orderId].items IN
       currentTotal(items, Len(items)) # payments[t].amount

\* C24: a payment that was set to failed (by a failed or canceled event) keeps
\* that status whatever event arrives later for its transactionId, and no
\* later step sets its order to paid or takes stock for it.  (The claim's
\* other terminal status, completed, is C7's.)
C24_FailedPaymentFrozen ==
  [][\A t \in TxIds :
       payments[t].status = "failed"
         => /\ payments'[t].status = "failed"
            /\ orders[payments[t].orderId].status # "paid"
                 => orders'[payments[t].orderId].status # "paid"]_vars

\* C25: the Payment rows are kept one per transactionId: a createPayment that
\* ends in "created" adds exactly one row, under a transactionId no stored row
\* had, and changes no other row; a createPayment whose provider answered with
\* the transactionId of a stored row fails and leaves the table as it was,
\* whether the two calls came one after the other or together.
C25_UniqueTransactionId ==
  [][\A w \in Workers :
       (req[w].pc = "strategy" /\ req'[w].pc = "idle")
         => IF result' = "created"
            THEN \E t \in TxIds :
                   /\ payments[t] = NoPayment
                   /\ payments'[t] # NoPayment
                   /\ \A u \in TxIds \ {t} : payments'[u] = payments[u]
            ELSE /\ result' \in {"Validation", "DbError"}
                 /\ payments' = payments]_vars

\* C25 witness: two createPayment calls were made, a row is stored, and the
\* last call has just failed on the unique index.
C25_Witness ==
  /\ result = "DbError"
  /\ calls = 2
  /\ \E t \in TxIds : payments[t] # NoPayment
  /\ \A w \in Workers : req[w].pc = "idle"

\* a request of two lines for one product that exists, is active, has the
\* lines' price and has stock for the two quantities together
TwoLinesOneProduct(items) ==
  /\ Len(items) = 2
  /\ items[1].product_id = items[2].product_id
  /\ items[1].product_id \in DOMAIN products
  /\ LET product == products[items[1].product_id] IN
       /\ product.status = "active"
       /\ product.price = items[1].price /\ product.price = items[2].price
       /\ items[1].quantity + items[2].quantity <= product.stock

\* C26: a createOrder whose request has the same product on two lines, within
\* its stock and at its price, is accepted: it stores one pending order with
\* one item per line.  (The settlement of such an order is out of reach
\* while no such order is stored.)
C26_SameProductTwiceAccepted ==
  [][(req' = req /\ payments' = payments /\ products' = products)
       => \A items \in WideOrderRequests :
            (TwoLinesOneProduct(items) /\ CreateOrder(items))
              => /\ result' = "ok"
                 /\ Len(orders') = Len(orders) + 1
                 /\ orders'[Len(orders')].status = "pending"
                 /\ Len(orders'[Len(orders')].items) = 2]_vars

\* w has a database transaction open
TransactionOpen(w) ==
  \/ req[w].pc \in InTransaction
  \/ req[w].wPayment \/ req[w].wOrder \/ req[w].wStock # NoWrites

\* C27: a request never has a provider call in progress and a transaction
\* open together.  createPayment reaches its provider call with no
\* transaction and opens none after it; a settlement's transaction opens only
\* in the step that has made the provider's verifyPayment call, from a
\* request that had none open, and with nothing written; and a request with
\* a transaction open goes on inside it or ends, never to a provider call.
C27_NoProviderCallInTransaction ==
  [][\A w \in Workers :
       /\ req[w].pc = "strategy"
            => ~TransactionOpen(w) /\ req'[w].pc \in {"strategy", "idle"}
       /\ req'[w].pc = "strategy"
            => req[w].pc \in {"findByOrderId", "strategy"}
       /\ req[w].pc \in InTransaction
            => req'[w].pc \in InTransaction \cup {"idle"}
       /\ (req[w].pc \notin InTransaction /\ req'[w].pc \in InTransaction)
            => /\ req[w] = Idle
               /\ req'[w].pc = "findPayment"
               /\ ~req'[w].wPayment /\ ~req'[w].wOrder /\ req'[w].wStock = NoWrites]_vars

\* C27 witness: one request is at its provider call with no transaction open
\* while another request's settlement transaction holds an updated payment row.
C27_Witness ==
  \E w, v \in Workers :
    /\ req[w].pc = "strategy"
    /\ ~TransactionOpen(w)
    /\ req[v].pc \in InTransaction
    /\ req[v].wPayment

\* w and v run 'completed' settlements of two different orders that share a
\* product whose stock covers the two quantities together
SettleSharedProduct(w, v) ==
  /\ w # v
  /\ req[w].kind = "completed" /\ req[v].kind = "completed"
  /\ req[w].pc \in InTransaction \ {"findPayment"}
  /\ req[v].pc \in InTransaction \ {"findPayment"}
  /\ req[w].orderId # req[v].orderId
  /\ \E p \in Products :
       /\ itemQty(req[w].orderId, p) > 0
       /\ itemQty(req[v].orderId, p) > 0
  /\ \A p \in Products :
       products[p].stock >= itemQty(req[w].orderId, p) + itemQty(req[v].orderId, p)

\* C28: while 'completed' settlements of two different orders that share a
\* product run concurrently, with stock for both orders, neither ends in an
\* error, and the one that commits sets its order to paid and lowers every
\* product's stock by its order's quantity, whatever the other has read or
\* written.
C28_NoLostUpdate ==
  [][\A w, v \in Workers :
       (SettleSharedProduct(w, v) /\ Steps(w))
         => /\ result' \notin Errors
            /\ Commits(w)
                 => /\ orders'[req[w].orderId].status = "paid"
                    /\ \A p \in Products :
                         products'[p].stock
                           = products[p].stock - itemQty(req[w].orderId, p)]_vars

\* C29: in every committed state an order is paid exactly when one of its
\* payments is completed.
C29_PaidIffCompletedPayment ==
  \A o \in DOMAIN orders :
    orders[o].status = "paid"
      <=> \E t \in TxIds : /\ payments[t].orderId = o
                            /\ payments[t].status = "completed"

\* the order of the payment w's settlement is about
SettledOrder(w) == payments[req[w].tx].orderId

\* w has taken up an authenticated 'completed' event for a pending payment of
\* a pending order whose items all have stock
CompletedEventAccepted(w) ==
  /\ req[w].pc = "findPayment"
  /\ req[w].kind = "completed"
  /\ payments[req[w].tx] # NoPayment
  /\ payments[req[w].tx].status = "pending"
  /\ orders[SettledOrder(w)].status = "pending"
  /\ \A p \in Products : products[p].stock >= itemQty(SettledOrder(w), p)

\* another 'completed' settlement is running on a product of w's order
OtherSettlementTouches(w) ==
  /\ req[w].tx \in TxIds
  /\ payments[req[w].tx] # NoPayment
  /\ \E v \in Workers \ {w} :
       /\ req[v].pc \in InTransaction
       /\ req[v].kind = "completed"
       /\ payments[req[v].tx] # NoPayment
       /\ \E p \in Products : /\ itemQty(SettledOrder(w), p) > 0
                               /\ itemQty(SettledOrder(v), p) > 0

\* C30: with every runnable settlement statement eventually run, every
\* settlement that was started ends with its worker idle and no write left
\* uncommitted (committed or rolled back); and once an authenticated
\* 'completed' event is taken up for a pending payment of a pending order
\* whose items all have stock, the payment becomes completed and the order
\* paid, unless another 'completed' settlement runs on one of its products.
C30_SettlementLiveness ==
  \A w \in Workers :
    /\ (req[w].pc \in InTransaction) ~> (req[w] = Idle)
    /\ \A t \in TxIds :
         (CompletedEventAccepted(w) /\ req[w].tx = t)
           ~> (\/ /\ payments[t].status = "completed"
                  /\ orders[payments[t].orderId].status = "paid"
               \/ \E v \in Workers : req[v].tx = t /\ OtherSettlementTouches(v))

\* C30 witness: the one settlement request made was a 'completed' event; it
\* has committed, its payment is completed, its order is paid and its items'
\* stock was taken.
C30_Witness ==
  /\ calls = 1
  /\ result = "ok"
  /\ \A w \in Workers : req[w] = Idle
  /\ \E t \in TxIds :
       /\ payments[t].status = "completed"
       /\ payments[t].rawResponse = "completed"
       /\ orders[payments[t].orderId].status = "paid"
       /\ \E p \in Products : /\ itemQty(payments[t].orderId, p) > 0
                               /\ products[p].stock
                                    = SeedStock(p) - itemQty(payments[t].orderId, p)

TypeOK ==
  /\ \A p \in Products : products[p].stock \in Int /\ products[p].status \in ProductStatus
  /\ Len(orders) <= MaxOrders
  /\ \A o \in DOMAIN orders : orders[o].status \in OrderStatus
  /\ \A t \in TxIds : payments[t] = NoPayment \/ payments[t].status \in PaymentStatus
  /\ result \in {"none", "ok", "created", "already", "200", "400"} \cup Errors
  /\ calls \in 0..MaxCalls

====
